---- MODULE Spec2Model ----
(***************************************************************************)
(* Model of src/develop/imageop_gui.c (darktable): the three binders that  *)
(* build a slider, a combobox or a toggle button from an introspected      *)
(* module parameter, and the five "value-changed"/"toggled" callbacks      *)
(* that copy the control's value into the parameter block and record the   *)
(* change.                                                                 *)
(*                                                                         *)
(* Floats are represented exactly as integer multiples of 1/FloatUnit.     *)
(* The float arithmetic of the slider step (log10f, floorf, powf) is       *)
(* computed with integer thresholds that agree with the C float arithmetic *)
(* on every multiple of 1/FloatUnit below 100.                             *)
(***************************************************************************)
EXTENDS Integers, Sequences, FiniteSets, TLC

\* ---------------------------------------------------------------- bounds
MaxWidgets == 1
MaxEvents == 2
MaxEntries == 1
MaxDecade == 5

\* ------------------------------------------------------------- constants
NULL == 0
Module == 1
FloatUnit == 1000

ParamNames == {"f", "i", "u", "e", "b", "zz"}

EnumValues == <<10, 20, 0>>

SliderVals == {-1500, 500, 1500}

IntVals == -1 .. 1

NoStep == [mant |-> 0, exp |-> 0]

NoFormat == [sign |-> FALSE, digits |-> 0]

NoEvent == [w |-> NULL, reset |-> FALSE, previous |-> 0, after |-> 0, shown |-> 0]

\* ----------------------------------------------------------------- state
VARIABLES
  introspection,   \* self->so->get_f: parameter name -> field descriptor
  params,          \* self->params: field name -> value
  reset,           \* darktable.gui->reset
  gui_changed,     \* self->gui_changed is registered
  self_widget,     \* self->widget: NULL or the id of a box
  boxes,           \* every GtkBox in existence: id -> sequence of children
  box_new_calls,   \* number of gtk_box_new calls made by the binders
  widgets,         \* controls created by the binders, id -> control
  returned,        \* binder calls that returned: binder, param, return value
  crashed,         \* the process died on a NULL widget
  event,           \* the change event delivered by the last step, if any
  calls,           \* collaborator calls made by the last step, in order
  history,         \* number of dt_dev_add_history_item calls so far
  picker_resets,   \* number of dt_iop_color_picker_reset calls so far
  hook_calls,      \* number of self->gui_changed calls so far
  n_changed,       \* number of events that changed the value of a field
  n_events         \* number of change events delivered so far

vars == <<introspection, params, reset, gui_changed, self_widget, boxes,
          box_new_calls, widgets, returned, crashed, event, calls, history,
          picker_resets, hook_calls, n_changed, n_events>>

gui_vars == <<self_widget, boxes, box_new_calls, widgets, returned>>

\* a step that runs no callback: event and calls describe the last step only
NoCallback ==
  /\ event' = NoEvent
  /\ calls' = <<>>
  /\ UNCHANGED <<history, picker_resets, hook_calls, n_changed, n_events>>

\* ------------------------------------------------------------- helpers
RECURSIVE Pow10(_)
Pow10(k) == IF k <= 0 THEN 1 ELSE 10 * Pow10(k - 1)

Abs(x) == IF x < 0 THEN -x ELSE x

Min2(a, b) == IF a < b THEN a ELSE b

Max2(a, b) == IF a > b THEN a ELSE b

\* (int) of a float: truncation toward zero
FloatToInt(v) == IF v >= 0 THEN v \div FloatUnit ELSE -((-v) \div FloatUnit)

IntToFloat(i) == i * FloatUnit

\* const int defval = *(float*)get_p(p, param) on an int field: the bits of
\* the int are read as a float and converted back.  Bits of 0 .. 0x3F7FFFFF
\* are a float in [0, 1) and convert to 0; bits of a small negative int are
\* a NaN, whose conversion to int is undefined.
IntReadAsFloat(i) == IF i >= 0 THEN {0} ELSE IntVals

Field(t, lo, hi, vals) == [type |-> t, Min |-> lo, Max |-> hi, values |-> vals]

get_f(param) == introspection[param]

HasField(param) == param \in DOMAIN introspection

\* ------------------------------------------------- slider step and digits
\* top = fminf(max-min, fmaxf(fabsf(min), fabsf(max)))
Top(min, max) == Min2(max - min, Max2(Abs(min), Abs(max)))

\* least multiple of 1/FloatUnit whose log10(top/100)+.1 reaches k-5, that
\* is the least n >= 10^(k-0.1)
LowThr(k) == (79432 \div Pow10(5 - k)) + 1

\* least multiple of 1/FloatUnit with log10(top/100) - (k-5) > .5, that is
\* the least n > 10^(k+0.5)
MidThr(k) == (316227 \div Pow10(5 - k)) + 1

\* floorf(log10f(top/100) + .1) + 5, for 0 < top < 100
RECURSIVE Decade(_, _)
Decade(top, k) == IF k < 5 /\ top >= LowThr(k + 1) THEN Decade(top, k + 1) ELSE k

\* fdigits
FDigits(top) == Decade(top, 0) - 5

\* if(fdigits < -2.f) digits = -fdigits, else the initial 2
SliderDigitsBelowMinus3(fdigits) == IF fdigits < -3 THEN -fdigits ELSE 2

SliderDigits(fdigits) == IF fdigits < -2 THEN -fdigits ELSE 2

\* step = powf(10, fdigits), times 5 if log10step - fdigits > .5
LogStep(top) ==
  [mant |-> IF top >= MidThr(FDigits(top) + 5) THEN 5 ELSE 1,
   exp  |-> FDigits(top)]

SliderStepCapAt1000(top) ==
  IF top >= 1000 * FloatUnit THEN [mant |-> 1, exp |-> 0]
  ELSE IF top >= 100 * FloatUnit
       THEN [mant |-> LogStep(top \div 10).mant,
             exp  |-> LogStep(top \div 10).exp + 1]
       ELSE LogStep(top)

SliderStep(top) ==
  IF top >= 100 * FloatUnit THEN [mant |-> 1, exp |-> 0] ELSE LogStep(top)

\* digits stays 2 on the top >= 100 branch
DigitsOf(top) == IF top >= 100 * FloatUnit THEN 2 ELSE SliderDigits(FDigits(top))

\* the format is set only if min < 0: "%+.0<digits>f"
SliderFormat(min, digits) ==
  IF min < 0 THEN [sign |-> TRUE, digits |-> digits] ELSE NoFormat

\* ------------------------------------------------------------- controls
Control(kind, param, label, handler, value, entries, min, max, step, digits, fmt, mod) ==
  [kind |-> kind, param |-> param, label |-> label, handler |-> handler,
   value |-> value, entries |-> entries, min |-> min, max |-> max,
   step |-> step, digits |-> digits, format |-> fmt, module |-> mod]

\* if(!self->widget) self->widget = gtk_box_new(...);
\* gtk_box_pack_start(GTK_BOX(self->widget), control, ...); return control;
PackAndReturn(binder, param, ctl) ==
  LET id    == Len(widgets) + 1
      fresh == self_widget = NULL
      box   == IF fresh THEN Len(boxes) + 1 ELSE self_widget
      bs    == IF fresh THEN Append(boxes, <<>>) ELSE boxes
  IN /\ widgets' = Append(widgets, ctl)
     /\ self_widget' = box
     /\ box_new_calls' = IF fresh THEN box_new_calls + 1 ELSE box_new_calls
     /\ boxes' = [bs EXCEPT ![box] = Append(@, id)]
     /\ returned' = Append(returned, [binder |-> binder, param |-> param, ret |-> id])
     /\ UNCHANGED crashed

\* the same two lines reached with slider == NULL: gtk_box_pack_start
\* rejects a NULL child, and NULL is returned
PackNullAndReturn(binder, param) ==
  LET fresh == self_widget = NULL
  IN /\ self_widget' = IF fresh THEN Len(boxes) + 1 ELSE self_widget
     /\ box_new_calls' = IF fresh THEN box_new_calls + 1 ELSE box_new_calls
     /\ boxes' = IF fresh THEN Append(boxes, <<>>) ELSE boxes
     /\ returned' = Append(returned, [binder |-> binder, param |-> param, ret |-> NULL])
     /\ UNCHANGED <<widgets, crashed>>

CanBind == ~crashed /\ Len(returned) < MaxWidgets

FloatSlider(param) ==
  LET f   == get_f(param)
      top == Top(f.Min, f.Max)
  IN Control("slider", param, "description", "generic_slider_float_callback",
             params[param], <<>>, f.Min, f.Max, SliderStep(top), DigitsOf(top),
             SliderFormat(f.Min, DigitsOf(top)), Module)

IntSlider(param, defval) ==
  LET f == get_f(param)
  IN Control("slider", param, "description", "generic_slider_int_callback",
             IntToFloat(defval), <<>>, IntToFloat(f.Min), IntToFloat(f.Max),
             [mant |-> 1, exp |-> 0], 0, NoFormat, Module)

dt_bauhaus_slider_from_params(param) ==
  /\ CanBind
  /\ IF HasField(param)
     THEN IF get_f(param).type = "FLOAT"
          THEN PackAndReturn("slider", param, FloatSlider(param))
          ELSE IF get_f(param).type = "INT"
          THEN \E defval \in IntReadAsFloat(params[param]) :
                 PackAndReturn("slider", param, IntSlider(param, defval))
          ELSE \* slider is still NULL at dt_bauhaus_widget_set_label
               \/ /\ crashed' = TRUE
                  /\ UNCHANGED gui_vars
               \/ PackNullAndReturn("slider", param)
     ELSE PackAndReturn("slider", param,
            Control("slider", param, "is not a float/int/slider parameter",
                    "none", 0, <<>>, 0, 0, NoStep, 0, NoFormat, Module))
  /\ UNCHANGED <<introspection, params, reset, gui_changed>>
  /\ NoCallback

ComboTypes == {"ENUM", "INT", "UINT", "BOOL"}

\* entries of a combobox: the data pointer attached to each, NULL if none;
\* a non-NULL pointer is represented by <<value pointed to>>
NoData == <<>>

ComboEntries(f) ==
  IF f.type = "BOOL" THEN <<[text |-> "no", data |-> NoData], [text |-> "yes", data |-> NoData]>>
  ELSE IF f.type = "ENUM"
       THEN [k \in 1 .. Len(f.values) |-> [text |-> "enum", data |-> <<f.values[k]>>]]
       ELSE <<>>

dt_bauhaus_combobox_from_params(param) ==
  /\ CanBind
  /\ IF HasField(param) /\ get_f(param).type \in ComboTypes
     THEN PackAndReturn("combobox", param,
            Control("combobox", param, "description",
                    IF get_f(param).type = "BOOL"
                    THEN "generic_combobox_bool_callback"
                    ELSE "generic_combobox_enum_callback",
                    -1, ComboEntries(get_f(param)), 0, 0, NoStep, 0, NoFormat, Module))
     ELSE PackAndReturn("combobox", param,
            Control("combobox", param, "is not an enum/int/bool/combobox parameter",
                    "none", -1, <<>>, 0, 0, NoStep, 0, NoFormat, Module))
  /\ UNCHANGED <<introspection, params, reset, gui_changed>>
  /\ NoCallback

dt_bauhaus_toggle_from_params(param) ==
  /\ CanBind
  /\ IF HasField(param) /\ get_f(param).type = "BOOL"
     THEN PackAndReturn("toggle", param,
            Control("toggle", param, "description", "generic_toggle_callback",
                    0, <<>>, 0, 0, NoStep, 0, NoFormat, NULL))
     ELSE PackAndReturn("toggle", param,
            Control("toggle", param, "is not a bool/togglebutton parameter",
                    "none", 0, <<>>, 0, 0, NoStep, 0, NoFormat, NULL))
  /\ UNCHANGED <<introspection, params, reset, gui_changed>>
  /\ NoCallback

\* ------------------------------------------------------ change callbacks
Call(fn, self, w, data, now) ==
  [fn |-> fn, module |-> self, widget |-> w, data |-> data, now |-> now]

Count(fn, cs) == Cardinality({k \in DOMAIN cs : cs[k].fn = fn})

\* data is the value of previous, now the value of the field during the calls
process_changed_value_swapped(self, w, data, now) ==
  LET s == IF self = NULL THEN widgets[w].module ELSE self
  IN (IF gui_changed THEN <<Call("gui_changed", s, w, data, now)>> ELSE <<>>)
     \o <<Call("dt_dev_add_history_item", s, NULL, 0, now),
          Call("dt_iop_color_picker_reset", s, NULL, 0, now)>>

process_changed_value_newdata(self, w, data, now) ==
  LET s == IF self = NULL THEN widgets[w].module ELSE self
  IN (IF gui_changed THEN <<Call("gui_changed", s, w, now, now)>> ELSE <<>>)
     \o <<Call("dt_iop_color_picker_reset", s, NULL, 0, now),
          Call("dt_dev_add_history_item", s, NULL, 0, now)>>

process_changed_value(self, w, data, now) ==
  LET s == IF self = NULL THEN widgets[w].module ELSE self
  IN (IF gui_changed THEN <<Call("gui_changed", s, w, data, now)>> ELSE <<>>)
     \o <<Call("dt_iop_color_picker_reset", s, NULL, 0, now),
          Call("dt_dev_add_history_item", s, NULL, 0, now)>>

\* if(*field != previous)
ValueDiffersAlways(new, previous) == TRUE

ValueDiffers(new, previous) == new /= previous

\* the control w shows v and emits its change signal
Emits(w, handler) ==
  /\ ~crashed
  /\ n_events < MaxEvents
  /\ w \in DOMAIN widgets
  /\ widgets[w].handler = handler

Shows(w, v) == widgets' = [widgets EXCEPT ![w].value = v]

\* if(darktable.gui->reset) return;
Ignore(w, v) ==
  /\ event' = [w |-> w, reset |-> reset, previous |-> params[widgets[w].param],
               after |-> params[widgets[w].param], shown |-> v]
  /\ calls' = <<>>
  /\ n_events' = n_events + 1
  /\ UNCHANGED <<params, history, picker_resets, hook_calls, n_changed>>

\* previous = *field; *field = new; if(*field != previous) process_changed_value(...)
Deliver(w, v, self, new) ==
  LET fld      == widgets[w].param
      previous == params[fld]
      cs       == IF ValueDiffers(new, previous)
                  THEN process_changed_value(self, w, previous, new)
                  ELSE <<>>
  IN /\ params' = [params EXCEPT ![fld] = new]
     /\ calls' = cs
     /\ history' = history + Count("dt_dev_add_history_item", cs)
     /\ picker_resets' = picker_resets + Count("dt_iop_color_picker_reset", cs)
     /\ hook_calls' = hook_calls + Count("gui_changed", cs)
     /\ n_changed' = IF new /= previous THEN n_changed + 1 ELSE n_changed
     /\ n_events' = n_events + 1
     /\ event' = [w |-> w, reset |-> reset, previous |-> previous,
                  after |-> new, shown |-> v]

EventFrame == UNCHANGED <<introspection, reset, gui_changed, self_widget, boxes,
                          box_new_calls, returned, crashed>>

generic_slider_float_callback(w, v) ==
  /\ Emits(w, "generic_slider_float_callback")
  /\ Shows(w, v)
  /\ IF reset THEN Ignore(w, v) ELSE Deliver(w, v, NULL, v)
  /\ EventFrame

generic_slider_int_callback(w, v) ==
  /\ Emits(w, "generic_slider_int_callback")
  /\ Shows(w, v)
  /\ IF reset THEN Ignore(w, v) ELSE Deliver(w, v, NULL, FloatToInt(v))
  /\ EventFrame

\* dt_bauhaus_combobox_get_data: the data pointer of the active entry
HasData(w, sel) == sel >= 0 /\ widgets[w].entries[sel + 1].data /= NoData

ComboValueIndex(w, sel) == sel

ComboValue(w, sel) ==
  IF HasData(w, sel) THEN widgets[w].entries[sel + 1].data[1] ELSE sel

Selections(w) == -1 .. (Len(widgets[w].entries) - 1)

generic_combobox_enum_callback(w, sel) ==
  /\ Emits(w, "generic_combobox_enum_callback")
  /\ sel \in Selections(w)
  /\ Shows(w, sel)
  /\ IF reset THEN Ignore(w, sel) ELSE Deliver(w, sel, NULL, ComboValue(w, sel))
  /\ EventFrame

generic_combobox_bool_callback(w, sel) ==
  /\ Emits(w, "generic_combobox_bool_callback")
  /\ sel \in Selections(w)
  /\ Shows(w, sel)
  /\ IF reset THEN Ignore(w, sel) ELSE Deliver(w, sel, NULL, sel)
  /\ EventFrame

generic_toggle_callback_noreset(w, active) ==
  /\ Emits(w, "generic_toggle_callback")
  /\ Shows(w, active)
  /\ Deliver(w, active, Module, active)
  /\ EventFrame

generic_toggle_callback(w, active) ==
  /\ Emits(w, "generic_toggle_callback")
  /\ Shows(w, active)
  /\ IF reset THEN Ignore(w, active) ELSE Deliver(w, active, Module, active)
  /\ EventFrame

\* ------------------------------------------------------------ environment
\* the module fills a combobox bound to an int/uint field with plain entries
dt_bauhaus_combobox_add(w) ==
  /\ ~crashed
  /\ w \in DOMAIN widgets
  /\ widgets[w].handler = "generic_combobox_enum_callback"
  /\ get_f(widgets[w].param).type \in {"INT", "UINT"}
  /\ Len(widgets[w].entries) < MaxEntries
  /\ widgets' = [widgets EXCEPT ![w].entries = Append(@, [text |-> "item", data |-> NoData])]
  /\ UNCHANGED <<introspection, params, reset, gui_changed, self_widget, boxes,
                 box_new_calls, returned, crashed>>
  /\ NoCallback

\* darktable.gui->reset is raised and lowered around programmatic updates
set_reset ==
  /\ ~crashed
  /\ reset' = ~reset
  /\ UNCHANGED <<introspection, params, gui_changed, crashed>>
  /\ UNCHANGED gui_vars
  /\ NoCallback

\* ---------------------------------------------------------- specification
Introspection0 ==
  [f |-> Field("FLOAT", -2000, 2000, <<>>),
   i |-> Field("INT", -5, 5, <<>>),
   u |-> Field("UINT", 0, 5, <<>>),
   e |-> Field("ENUM", 0, 0, EnumValues),
   b |-> Field("BOOL", 0, 0, <<>>)]

InitParams ==
  {[f |-> 1500, i |-> iv, u |-> 1, e |-> 20, b |-> bv] : iv \in {-1, 2}, bv \in {0, 1}}

InitRest ==
  /\ reset = FALSE
  /\ widgets = <<>>
  /\ returned = <<>>
  /\ crashed = FALSE
  /\ box_new_calls = 0
  /\ event = NoEvent
  /\ calls = <<>>
  /\ history = 0
  /\ picker_resets = 0
  /\ hook_calls = 0
  /\ n_changed = 0
  /\ n_events = 0

Init ==
  /\ introspection = Introspection0
  /\ params \in InitParams
  /\ gui_changed \in BOOLEAN
  /\ \/ self_widget = NULL /\ boxes = <<>>
     \/ self_widget = 1 /\ boxes = << <<>> >>
  /\ InitRest

SliderBind == \E param \in ParamNames : dt_bauhaus_slider_from_params(param)

ComboboxBind == \E param \in ParamNames : dt_bauhaus_combobox_from_params(param)

ToggleBind == \E param \in ParamNames : dt_bauhaus_toggle_from_params(param)

FloatSliderChanged ==
  \E w \in DOMAIN widgets, v \in SliderVals : generic_slider_float_callback(w, v)

IntSliderChanged ==
  \E w \in DOMAIN widgets, v \in SliderVals : generic_slider_int_callback(w, v)

EnumComboboxChanged ==
  \E w \in DOMAIN widgets : \E sel \in Selections(w) : generic_combobox_enum_callback(w, sel)

BoolComboboxChanged ==
  \E w \in DOMAIN widgets : \E sel \in Selections(w) : generic_combobox_bool_callback(w, sel)

Toggled ==
  \E w \in DOMAIN widgets, active \in {0, 1} : generic_toggle_callback(w, active)

ComboboxAdd == \E w \in DOMAIN widgets : dt_bauhaus_combobox_add(w)

Next ==
  \/ SliderBind
  \/ ComboboxBind
  \/ ToggleBind
  \/ FloatSliderChanged
  \/ IntSliderChanged
  \/ EnumComboboxChanged
  \/ BoolComboboxChanged
  \/ Toggled
  \/ ComboboxAdd
  \/ set_reset

Spec == Init /\ [][Next]_vars

\* ------------------------------------------- specification of the ranges
\* the declared range of the float field runs over a grid of values
\* m * 10^k / FloatUnit, the range of the int field over a few pairs
RangeVals ==
  {0} \cup {m * Pow10(k) : m \in 1 .. 9, k \in 0 .. MaxDecade}
      \cup {-(m * Pow10(k)) : m \in 1 .. 9, k \in 0 .. MaxDecade}

IntRanges == {<<-5, 5>>, <<-60, 60>>, <<0, 200>>}

InitRange ==
  /\ introspection \in
       {[Introspection0 EXCEPT !.f = Field("FLOAT", r[1], r[2], <<>>),
                               !.i = Field("INT", ir[1], ir[2], <<>>)] :
          r \in {q \in RangeVals \X RangeVals : q[1] < q[2]}, ir \in IntRanges}
  /\ params = [f |-> introspection.f.Min, i |-> 2, u |-> 1, e |-> 20, b |-> 1]
  /\ gui_changed = FALSE
  /\ self_widget = NULL
  /\ boxes = <<>>
  /\ InitRest

NextRange == SliderBind

SpecRange == InitRange /\ [][NextRange]_vars

\* ------------------------------------------------------------- properties
HookFn == "gui_changed"

PickerFn == "dt_iop_color_picker_reset"

HistoryFn == "dt_dev_add_history_item"

Index(fn) == CHOOSE k \in DOMAIN calls : calls[k].fn = fn

\* the last event was delivered with the reset flag clear and changed the field
LastChanged == event.w /= NULL /\ ~event.reset /\ event.after /= event.previous

\* the last event was delivered with the reset flag clear and wrote an equal value
LastEqual == event.w /= NULL /\ ~event.reset /\ event.after = event.previous

LastHandler == IF event.w = NULL THEN "none" ELSE widgets[event.w].handler

\* C1: a change event delivered to any of the five callbacks while the reset
\* flag is set leaves every field unchanged and makes no hook call, no
\* color-picker reset and no history commit, whatever the control shows.
C1_ResetIgnoresEvent ==
  [][(reset /\ n_events' /= n_events) =>
       /\ params' = params
       /\ calls' = <<>>
       /\ hook_calls' = hook_calls
       /\ picker_resets' = picker_resets
       /\ history' = history]_vars

\* a toggle was flipped under reset to a value its field does not hold
C1_Witness ==
  /\ event.w /= NULL
  /\ event.reset
  /\ LastHandler = "generic_toggle_callback"
  /\ widgets[event.w].value /= params[widgets[event.w].param]

\* C2 (as stated): a value-changing event makes exactly one history commit and
\* one color-picker reset, the history commit first, both after the hook.
C2_HistoryThenPickerReset ==
  LastChanged =>
    /\ Count(HistoryFn, calls) = 1
    /\ Count(PickerFn, calls) = 1
    /\ Index(HistoryFn) < Index(PickerFn)
    /\ gui_changed => (Count(HookFn, calls) = 1 /\ Index(HookFn) < Index(HistoryFn))

\* C2 (amended): a value-changing event makes exactly one color-picker reset
\* and one history commit, the color-picker reset first, both after the hook.
C2_PickerResetThenHistory ==
  LastChanged =>
    /\ Count(HistoryFn, calls) = 1
    /\ Count(PickerFn, calls) = 1
    /\ Index(PickerFn) < Index(HistoryFn)
    /\ gui_changed => (Count(HookFn, calls) = 1 /\ Index(HookFn) < Index(PickerFn))

C2_Witness == LastChanged /\ gui_changed /\ Len(calls) = 3

\* C3: an event (reset clear) whose new value equals the previous one writes
\* the field but makes no hook call, no color-picker reset and no history
\* commit; the number of history commits is the number of events that changed
\* a field's value.
C3_EqualValueNoCommit ==
  /\ LastEqual => (calls = <<>> /\ params[widgets[event.w].param] = event.previous)
  /\ history = n_changed
  /\ picker_resets = n_changed
  /\ hook_calls <= n_changed

\* an event changed a field and a later one wrote the value it already had
C3_Witness == LastEqual /\ n_changed = 1 /\ n_events = 2

\* the types each binder builds a functional control for
Matches(binder, type) ==
  \/ binder = "slider" /\ type \in {"FLOAT", "INT"}
  \/ binder = "combobox" /\ type \in {"ENUM", "INT", "UINT", "BOOL"}
  \/ binder = "toggle" /\ type = "BOOL"

Children == IF self_widget = NULL THEN <<>> ELSE boxes[self_widget]

\* C4: a binder called on a parameter whose descriptor exists but has a type
\* the binder does not handle returns a non-null placeholder with no change
\* handler and appends it to the module's container.
C4_MismatchGivesPlaceholder ==
  /\ ~crashed
  /\ \A k \in DOMAIN returned :
       (HasField(returned[k].param)
          /\ ~Matches(returned[k].binder, get_f(returned[k].param).type)) =>
         /\ returned[k].ret /= NULL
         /\ widgets[returned[k].ret].handler = "none"
         /\ \E c \in DOMAIN Children : Children[c] = returned[k].ret

\* the value a bound control displays, in the terms of its field
Displayed(w) ==
  IF widgets[w].handler = "generic_slider_int_callback"
  THEN IF widgets[w].value = IntToFloat(FloatToInt(widgets[w].value))
       THEN <<"int", FloatToInt(widgets[w].value)>>
       ELSE <<"float", widgets[w].value>>
  ELSE IF widgets[w].handler = "generic_combobox_enum_callback"
  THEN <<"int", ComboValue(w, widgets[w].value)>>
  ELSE IF widgets[w].handler = "generic_slider_float_callback"
  THEN <<"float", widgets[w].value>>
  ELSE <<"int", widgets[w].value>>

Stored(w) ==
  IF widgets[w].handler = "generic_slider_float_callback"
  THEN <<"float", params[widgets[w].param]>>
  ELSE <<"int", params[widgets[w].param]>>

\* C5: every bound control displays the value of its field, from the moment
\* the binder created it and after any sequence of change events.
C5_DisplayedEqualsField ==
  \A w \in DOMAIN widgets :
    widgets[w].handler /= "none" => Displayed(w) = Stored(w)

\* C6: the container is created at most once, is never replaced, and its
\* children are the controls the binder calls returned, in call order.
C6_ContainerHoldsReturned ==
  /\ box_new_calls <= 1
  /\ Len(boxes) <= 1
  /\ returned /= <<>> => self_widget /= NULL
  /\ Children = [k \in DOMAIN returned |-> returned[k].ret]

IsNumericSlider(w) ==
  widgets[w].handler \in {"generic_slider_float_callback", "generic_slider_int_callback"}

One == [mant |-> 1, exp |-> 0]

\* C7 (as stated): a numeric field with max - min >= 100 gets step 1.
C7_WideRangeStepOne ==
  \A w \in DOMAIN widgets :
    (IsNumericSlider(w) /\ widgets[w].max - widgets[w].min >= 100 * FloatUnit)
      => widgets[w].step = One

\* C7 (amended): a numeric field with top >= 100, where
\* top = min(max-min, max(|min|,|max|)), gets step 1.
C7_TopStepOne ==
  \A w \in DOMAIN widgets :
    (IsNumericSlider(w) /\ Top(widgets[w].min, widgets[w].max) >= 100 * FloatUnit)
      => widgets[w].step = One

C7_Witness ==
  \E w \in DOMAIN widgets :
    /\ widgets[w].handler = "generic_slider_float_callback"
    /\ Top(widgets[w].min, widgets[w].max) >= 100 * FloatUnit
    /\ widgets[w].min < 0
    /\ widgets[w].step = One

IsLogSlider(w) ==
  /\ widgets[w].handler = "generic_slider_float_callback"
  /\ Top(widgets[w].min, widgets[w].max) > 0
  /\ Top(widgets[w].min, widgets[w].max) < 100 * FloatUnit

\* 100 * step, in multiples of 1/FloatUnit
Step100(w) == widgets[w].step.mant * Pow10(widgets[w].step.exp + 5)

DigitsRule(w) ==
  widgets[w].digits = IF widgets[w].step.exp < -2 THEN -widgets[w].step.exp ELSE 2

FieldType(w) == get_f(widgets[w].param).type

C10_HookSeesPreviousValue ==
  /\ hook_calls = IF gui_changed THEN n_changed ELSE 0
  /\ LastChanged =>
       /\ Count(HookFn, calls) = IF gui_changed THEN 1 ELSE 0
       /\ Count(PickerFn, calls) = 1
       /\ Count(HistoryFn, calls) = 1
       /\ gui_changed =>
            /\ calls[Index(HookFn)].widget = event.w
            /\ calls[Index(HookFn)].data = event.previous
            /\ calls[Index(HookFn)].now = event.after
            /\ calls[Index(HookFn)].now /= calls[Index(HookFn)].data
            /\ calls[Index(HookFn)].module = Module

C10_Witness ==
  /\ LastChanged
  /\ gui_changed
  /\ hook_calls = 2
  /\ LastHandler = "generic_slider_int_callback"

====
